---- MODULE Spec2Model ----
(***************************************************************************)
(* A model of the origin-substituting proxy of cumacumaalosman/exa.        *)
(*                                                                         *)
(* The repository holds five server programs, each with its own handler:   *)
(*   "mainProxy"    src/main.ts:1-192          handler (strict cookies,    *)
(*                                             scheme fallback)            *)
(*   "mainJson"     src/main.ts:194-347        handler (JSON endpoints)    *)
(*   "p0NoFallback" src/unnamed/part_000:1-268 handler + proxyToTarget     *)
(*   "p0Full"       src/unnamed/part_000:505-817 handler + proxyToTarget   *)
(*   "p0Serve"      src/unnamed/part_000:828-871 Deno.serve callback       *)
(* Spec follows one request from its arrival to the response sent to the   *)
(* client; every await of the handler on the network is a step.            *)
(* SpecConcurrent follows several requests served by one program at once.  *)
(* SpecCookies applies a cookie rewriter to one Set-Cookie line, twice.    *)
(* SpecLive is Spec with an upstream that may send its headers and never   *)
(* finish its body, under the fairness of the runtime.                     *)
(*                                                                         *)
(* Strings the code takes apart are modelled structurally:                 *)
(*   - a URL string is a record of its components as written; URLParse     *)
(*     is the WHATWG parser (host lower-cased, default port dropped);      *)
(*   - a Set-Cookie line is its name=value pair and the sequence of its    *)
(*     ";"-separated attribute segments, each with its leading white       *)
(*     space, its key as written, and its value;                           *)
(*   - a body is a sequence of tokens.                                     *)
(***************************************************************************)
EXTENDS Integers, Sequences, FiniteSets, TLC

VARIABLES variant, req, pc, calls, errs, upstream, resp, bodyReads, cancelled

vars == <<variant, req, pc, calls, errs, upstream, resp, bodyReads, cancelled>>

(***************************************************************************)
(* Bounds of the model.                                                    *)
(***************************************************************************)
\* the largest number of Set-Cookie lines of an upstream response
MaxCookies == 2

Variants == {"mainProxy", "mainJson", "p0NoFallback", "p0Full", "p0Serve"}

(***************************************************************************)
(* URLs.                                                                   *)
(***************************************************************************)
\* the components of a URL string: query and hash keep their "?" and "#"
URLRec(k, s, h, p, pa, q, f) ==
    [kind |-> k, scheme |-> s, host |-> h, port |-> p, path |-> pa, query |-> q, hash |-> f]

\* const TARGET_HOST, as written in each program
TARGET_HOST(v) ==
    IF v = "p0Serve"
    THEN URLRec("abs", "https", "bold-credit-0176.cumaalosman.workers.dev", "", "/", "", "")
    ELSE URLRec("abs", "https", "ecsc-expat.sy", "8443", "", "", "")

\* const TRY_HTTP_FALLBACK
TRY_HTTP_FALLBACK == TRUE

DefaultPort(scheme) ==
    IF scheme = "https" THEN "443" ELSE IF scheme = "http" THEN "80" ELSE ""

\* ASCII lower-casing of the host names of the model
ToLowerCase(s) ==
    CASE s = "ECSC-EXPAT.SY" -> "ecsc-expat.sy"
      [] s = "Domain" -> "domain"
      [] s = "DOMAIN" -> "domain"
      [] s = "Path" -> "path"
      [] s = "Expires" -> "expires"
      [] s = "Max-Age" -> "max-age"
      [] s = "Secure" -> "secure"
      [] s = "HttpOnly" -> "httponly"
      [] s = "SameSite" -> "samesite"
      [] OTHER -> s

\* String.prototype.trim on the keys and values of the model
Trim(s) ==
    CASE s = "Domain " -> "Domain"
      [] s = "Path " -> "Path"
      [] OTHER -> s

\* a relative reference that is no absolute path, resolved against the path "/"
ResolvePath(p) ==
    CASE p = "" -> "/"
      [] p = "next" -> "/next"
      [] OTHER -> p

\* new URL(raw, base): the parsed URL, or kind "fail" where the parser throws
URLParse(raw, base) ==
    CASE raw.kind = "abs" ->
           URLRec("abs", raw.scheme, ToLowerCase(raw.host),
                  IF raw.port = DefaultPort(raw.scheme) THEN "" ELSE raw.port,
                  ResolvePath(raw.path), raw.query, raw.hash)
      [] raw.kind = "rel" ->
           URLRec("abs", base.scheme, base.host, base.port,
                  ResolvePath(raw.path), raw.query, raw.hash)
      [] OTHER -> URLRec("fail", "", "", "", "", "", "")

\* URL.origin
URLOrigin(u) == <<u.scheme, u.host, u.port>>

\* pathname + search + hash, as a Location value
RelativeOf(u) == URLRec("rel", "", "", "", u.path, u.query, u.hash)

\* u.protocol = "http:" followed by u.toString(), as the port-dropping bug would do it
SetProtocolHttp_DropPort(u) == [u EXCEPT !.scheme = "http", !.port = ""]

\* u.protocol = "http:" followed by u.toString()
SetProtocolHttp(u) ==
    [u EXCEPT !.scheme = "http",
              !.port = IF @ = DefaultPort("http") THEN "" ELSE @]

(***************************************************************************)
(* Header multimaps (the Headers class): a header name maps to the         *)
(* sequence of its values; the model reads with get only headers that      *)
(* carry at most one value.                                                *)
(***************************************************************************)
HeaderNames ==
    {"set-cookie", "location", "content-type", "content-length", "vary",
     "access-control-allow-origin", "access-control-allow-credentials",
     "access-control-allow-methods", "access-control-allow-headers",
     "access-control-expose-headers", "access-control-max-age"}

CorsHeaderSet ==
    {"access-control-allow-origin", "access-control-allow-credentials",
     "access-control-allow-methods", "access-control-allow-headers",
     "access-control-expose-headers"}

EmptyHeaders == [k \in HeaderNames |-> <<>>]

HSet(h, k, v) == [h EXCEPT ![k] = <<v>>]
HAppend(h, k, v) == [h EXCEPT ![k] = Append(@, v)]
HDelete(h, k) == [h EXCEPT ![k] = <<>>]
HHas(h, k) == h[k] # <<>>
HGet(h, k) == h[k][1]

\* new Headers(init) followed by the entries of more, each appended
HAppendAll(h, more) == [k \in HeaderNames |-> h[k] \o more[k]]

\* a value of a request header, or "" where the header is absent: the code
\* reads request headers only as  get(name) || default
ReqGet(r, k) == IF r.headers[k] = <<>> THEN "" ELSE r.headers[k][1]

(***************************************************************************)
(* Set-Cookie lines.                                                       *)
(***************************************************************************)
Attr(ws, key, eq, val) == [ws |-> ws, key |-> key, eq |-> eq, val |-> val]
CookieLine(nv, attrs) == [nv |-> nv, attrs |-> attrs]

\* the attribute name a browser reads in a segment (RFC 6265 5.2)
AttrName(a) == ToLowerCase(Trim(a.key))

HasAttr(line, name) == \E i \in 1..Len(line.attrs) : AttrName(line.attrs[i]) = name

RECURSIVE RemoveAt(_, _)
RemoveAt(s, i) ==
    IF s = <<>> THEN <<>>
    ELSE IF i = 1 THEN Tail(s)
    ELSE <<Head(s)>> \o RemoveAt(Tail(s), i - 1)

\* whether the segment ";" ws key "=" val matches  /;\s*Domain=[^;]+/i
MatchesDomainRegex(a) == ToLowerCase(a.key) = "domain" /\ a.eq /\ a.val # ""

\* setCookieValue.replace(/;\s*Domain=[^;]+/i, ""): the first match is removed
rewriteSetCookieForOurDomain(sc) ==
    LET hits == {i \in 1..Len(sc.attrs) : MatchesDomainRegex(sc.attrs[i])}
    IN  IF hits = {} THEN sc
        ELSE CookieLine(sc.nv,
                 RemoveAt(sc.attrs, CHOOSE i \in hits : \A j \in hits : i <= j))

\* the value the loop of sanitizeSetCookie leaves in expires / maxAge: the
\* last segment with that key wins; <<>> stands for null
LastAttr(attrs, name, canon) ==
    LET hits == {i \in 1..Len(attrs) : AttrName(attrs[i]) = name}
    IN  IF hits = {} THEN <<>>
        ELSE LET i == CHOOSE i \in hits : \A j \in hits : j <= i
             IN  <<Attr(" ", canon, TRUE, attrs[i].val)>>

\* a sanitizer that lets the upstream Path through where there is one
sanitizeSetCookie_KeepPath(sc) ==
    CookieLine(sc.nv,
        LastAttr(sc.attrs, "expires", "Expires")
        \o LastAttr(sc.attrs, "max-age", "Max-Age")
        \o (IF HasAttr(sc, "path") THEN LastAttr(sc.attrs, "path", "Path")
            ELSE <<Attr(" ", "Path", TRUE, "/")>>)
        \o <<Attr(" ", "HttpOnly", FALSE, ""),
             Attr(" ", "SameSite", TRUE, "None"), Attr(" ", "Secure", FALSE, "")>>)

\* sanitizeSetCookie: out.join("; ")
sanitizeSetCookie(sc) ==
    CookieLine(sc.nv,
        LastAttr(sc.attrs, "expires", "Expires")
        \o LastAttr(sc.attrs, "max-age", "Max-Age")
        \o <<Attr(" ", "Path", TRUE, "/"), Attr(" ", "HttpOnly", FALSE, ""),
             Attr(" ", "SameSite", TRUE, "None"), Attr(" ", "Secure", FALSE, "")>>)

(***************************************************************************)
(* Bodies: sequences of tokens.  The text of TARGET_HOST is the three      *)
(* tokens "https:", "//ecsc-expat.sy", ":8443".                            *)
(***************************************************************************)
TargetHostText == <<"https:", "//ecsc-expat.sy", ":8443">>
\* (new URL(TARGET_HOST)).origin: the port 8443 is no default port and stays
TargetOriginText == TargetHostText
\* "//" + (new URL(TARGET_HOST)).host
HostOnlyText == <<"//ecsc-expat.sy", ":8443">>
\* the injected <script> ... </script>: its text holds
\*   const target = ${JSON.stringify(new URL(TARGET_HOST).origin)};
\* and JSON.stringify leaves the characters of the origin as they are
Injection == <<"<script>const target = ">> \o TargetOriginText \o <<"; guard</script>">>

IsAt(s, p, i) == i + Len(p) - 1 <= Len(s) /\ SubSeq(s, i, i + Len(p) - 1) = p
Includes(s, p) == \E i \in 1..(Len(s) + 1) : IsAt(s, p, i)

RECURSIVE ReplaceFrom(_, _, _, _, _)
\* String.prototype.replace from position i: every match when all, else the first
ReplaceFrom(s, p, r, i, all) ==
    IF i > Len(s) THEN <<>>
    ELSE IF IsAt(s, p, i)
         THEN r \o (IF all THEN ReplaceFrom(s, p, r, i + Len(p), all)
                    ELSE SubSeq(s, i + Len(p), Len(s)))
         ELSE <<s[i]>> \o ReplaceFrom(s, p, r, i + 1, all)

\* text.replace(new RegExp(escaped, "g"), r)
ReplaceAll(s, p, r) == ReplaceFrom(s, p, r, 1, TRUE)
\* text.replace("literal", r)
ReplaceFirst(s, p, r) == ReplaceFrom(s, p, r, 1, FALSE)

\* insert injection before </head> if present, otherwise before </body>, otherwise prepend
Inject(text) ==
    IF Includes(text, <<"</head>">>)
    THEN ReplaceFirst(text, <<"</head>">>, Injection \o <<"</head>">>)
    ELSE IF Includes(text, <<"</body>">>)
         THEN ReplaceFirst(text, <<"</body>">>, Injection \o <<"</body>">>)
         ELSE Injection \o text

\* contentType.includes("text/html")
IsHtml(ct) == ct \in {"text/html", "text/html; charset=windows-1256"}

TextBody(t) == [kind |-> "text", text |-> t]
NullBody == [kind |-> "null"]
JsonBody(j) == [kind |-> "json", json |-> j]

\* Response.text(): the bytes decoded as UTF-8, an invalid byte becoming U+FFFD
DecodeUtf8(body) == [i \in 1..Len(body) |-> IF body[i] = "<FF>" THEN "<U+FFFD>" ELSE body[i]]

(***************************************************************************)
(* The inbound requests and the upstream responses of the model.           *)
(***************************************************************************)
\* the names of the request headers the handlers read, copy or set
RequestHeaderNames ==
    {"origin", "referer", "host", "content-length", "accept-encoding", "connection",
     "user-agent", "accept", "accept-language", "content-type", "cookie",
     "sec-fetch-site", "sec-fetch-mode", "sec-fetch-dest", "sec-fetch-user",
     "alt-used", "source", "referrer"}

NoRequestHeaders == [k \in RequestHeaderNames |-> <<>>]

\* the headers a client sends besides Origin and Referer: a bare client sends
\* Host only, a browser also the negotiation headers, its cookie and, with a
\* body, the entity headers
ClientHeaders(client, method) ==
    IF client = "bare"
    THEN [NoRequestHeaders EXCEPT !["host"] = <<"proxy.example">>]
    ELSE [NoRequestHeaders EXCEPT
            !["host"] = <<"proxy.example">>,
            !["accept-encoding"] = <<"gzip, br">>,
            !["connection"] = <<"keep-alive">>,
            !["user-agent"] = <<"Mozilla/5.0 (X11; Linux)">>,
            !["accept"] = <<"*/*">>,
            !["accept-language"] = <<"ar">>,
            !["cookie"] = <<"SESSION=abc">>,
            !["content-type"] = IF method = "POST" THEN <<"application/json">> ELSE <<>>,
            !["content-length"] = IF method = "POST" THEN <<"2">> ELSE <<>>]

ReqHeaders(origin, referer, client) ==
    [client EXCEPT !["origin"] = origin, !["referer"] = referer]

\* path and query of the inbound URL
Targets ==
    {<<"/x", "">>, <<"/x", "?q=1">>, <<"/secure/auth/login", "">>, <<"/login", "">>,
     <<"/rs/add", "">>, <<"/health", "">>, <<"/app", "">>, <<"/", "">>}

\* json: whether the request body parses as JSON (read by /login and /rs/add only)
Requests ==
    {r \in [method : {"GET", "POST", "OPTIONS"},
            path : {t[1] : t \in Targets},
            query : {t[2] : t \in Targets},
            headers : {ReqHeaders(o, rf, ClientHeaders(c, m)) :
                          o \in {<<>>, <<"https://app.example">>},
                          rf \in {<<>>, <<"https://app.example/page">>},
                          c \in {"bare", "browser"}, m \in {"GET", "POST", "OPTIONS"}},
            json : BOOLEAN] :
        /\ <<r.path, r.query>> \in Targets
        /\ r.headers["content-length"] # <<>> => r.method = "POST"
        /\ r.method = "POST" /\ r.headers["cookie"] # <<>> => r.headers["content-length"] # <<>>
        /\ r.json \/ (r.method = "POST" /\ r.path \in {"/login", "/rs/add"})}

CookiePool ==
    {CookieLine("sid=1", <<Attr(" ", "Domain", TRUE, "ecsc-expat.sy")>>),
     CookieLine("t=2", <<Attr(" ", "Path", TRUE, "/app"), Attr(" ", "Max-Age", TRUE, "60")>>),
     CookieLine("u=3", <<Attr(" ", "Domain", TRUE, "a.sy"), Attr("", "domain", TRUE, "b.sy")>>),
     CookieLine("v=4", <<>>)}

RECURSIVE SeqsUpTo(_, _)
\* the sequences over S of length at most n
SeqsUpTo(S, n) ==
    IF n = 0 THEN {<<>>}
    ELSE LET shorter == SeqsUpTo(S, n - 1)
         IN  shorter \cup {Append(q, x) : q \in shorter, x \in S}

CookieLists == SeqsUpTo(CookiePool, MaxCookies)

\* Location values, as upstream writes them
Locations ==
    {URLRec("abs", "https", "ecsc-expat.sy", "8443", "/x/y", "?q=1", ""),
     URLRec("abs", "https", "ECSC-EXPAT.SY", "8443", "/home", "", "#top"),
     URLRec("rel", "", "", "", "next", "", ""),
     URLRec("abs", "https", "other.example", "", "/p", "?r=2", ""),
     URLRec("abs", "http", "ecsc-expat.sy", "8443", "/x", "", ""),
     URLRec("bad", "", "", "", "http://[", "", "")}

HtmlBodies ==
    {<<"<head>", "</head>", "<body>", "https:", "//ecsc-expat.sy", ":8443", "/a", "</body>">>,
     <<"<body>", "https:", "//ecsc-expat.sy", "/b", "</body>">>,
     <<"https:", "https:", "//ecsc-expat.sy", ":8443", "//ecsc-expat.sy", ":8443", "/c">>,
     <<"<body>", "https:", "https:", "https:", "//ecsc-expat.sy", ":8443", "//ecsc-expat.sy",
       ":8443", "//ecsc-expat.sy", ":8443", "/d", "</body>">>,
     <<>>}

UpstreamResponse(status, cookies, loc, ct, len, acao, body) ==
    [status |-> status,
     headers |-> [EmptyHeaders EXCEPT !["set-cookie"] = cookies, !["location"] = loc,
                                      !["content-type"] = ct, !["content-length"] = len,
                                      !["access-control-allow-origin"] = acao],
     body |-> body]

UpstreamResponses ==
    {UpstreamResponse(s, cs, <<>>, <<"application/json">>, <<>>, <<>>, <<"{}">>) :
        s \in {200, 304, 403}, cs \in CookieLists}
    \cup {UpstreamResponse(302, cs, <<l>>, <<>>, <<>>, <<>>, <<>>) :
        cs \in SeqsUpTo(CookiePool, 1), l \in Locations}
    \cup {UpstreamResponse(200, <<>>, <<>>, <<ct>>, <<>>, <<>>, b) :
        ct \in {"text/html", "text/html; charset=windows-1256"}, b \in HtmlBodies}
    \cup {UpstreamResponse(s, <<>>, <<>>, <<"application/json">>, <<len>>, <<>>, <<"{}">>) :
        s \in {200, 400, 403, 500}, len \in {"220", "165", "189", "0"}}
    \cup {UpstreamResponse(200, <<>>, <<>>, ct, <<>>, acao, <<"<FF>", "png">>) :
        ct \in {<<>>, <<"image/png">>}, acao \in {<<>>, <<"https://up.example">>}}

(***************************************************************************)
(* Responses built without an upstream result.                             *)
(***************************************************************************)
Response(status, headers, body) == [status |-> status, headers |-> headers, body |-> body]

\* the Response constructor throws a TypeError for a body that is not null
\* together with a null body status
NullBodyStatus(status) == status \in {101, 204, 205, 304}

\* makeCorsPreflightResponse (src/main.ts, first program)
makeCorsPreflightResponse(originHeader) ==
    LET origin == IF originHeader # "" THEN originHeader ELSE "*"
        h1 == HSet(EmptyHeaders, "access-control-allow-origin", origin)
        h2 == HSet(h1, "access-control-allow-methods", "GET,POST,PUT,DELETE,OPTIONS")
        h3 == HSet(h2, "access-control-allow-headers", "*")
        h4 == HSet(h3, "access-control-allow-credentials", "true")
        h5 == HSet(h4, "access-control-max-age", "86400")
    IN  Response(204, h5, NullBody)

\* corsPreflightResponse() of the programs that answer every caller with "*"
corsPreflightResponse_Star(methods, allowHeaders) ==
    Response(204,
        [EmptyHeaders EXCEPT !["access-control-allow-origin"] = <<"*">>,
                             !["access-control-allow-methods"] = <<methods>>,
                             !["access-control-allow-headers"] = <<allowHeaders>>],
        NullBody)

\* getRequestOrigin
getRequestOrigin(r) ==
    IF ReqGet(r, "origin") # "" THEN ReqGet(r, "origin")
    ELSE IF ReqGet(r, "referer") # "" THEN ReqGet(r, "referer")
    ELSE "*"

\* makeCorsHeaders(req)
makeCorsHeaders(r) ==
    [EmptyHeaders EXCEPT
        !["access-control-allow-origin"] = <<getRequestOrigin(r)>>,
        !["access-control-allow-methods"] = <<"GET,POST,OPTIONS,PUT,DELETE">>,
        !["access-control-allow-headers"] = <<"Content-Type, Source, Cookie, Authorization">>,
        !["access-control-allow-credentials"] = <<"true">>,
        !["access-control-expose-headers"] = <<"Location,Content-Length,Set-Cookie">>]

\* corsPreflightResponse(req) of the full proxy
corsPreflightResponse(r) ==
    Response(204, HSet(makeCorsHeaders(r), "content-type", "text/plain; charset=utf-8"), NullBody)

\* jsonResponse(obj, status) of the programs without makeCorsHeaders
jsonResponse_Star(obj, status) ==
    Response(status,
        [EmptyHeaders EXCEPT !["content-type"] = <<"application/json; charset=utf-8">>,
                             !["access-control-allow-origin"] = <<"*">>],
        JsonBody(obj))

\* textResponse(text, status) of the programs without makeCorsHeaders
textResponse_Star(text, status) ==
    Response(status,
        [EmptyHeaders EXCEPT !["content-type"] = <<"text/html; charset=utf-8">>,
                             !["access-control-allow-origin"] = <<"*">>],
        TextBody(text))

\* jsonResponse(req, obj, status)
jsonResponse(r, obj, status) ==
    Response(status,
        HSet(makeCorsHeaders(r), "content-type", "application/json; charset=utf-8"),
        JsonBody(obj))

\* textResponse(req, text, status)
textResponse(r, text, status) ==
    Response(status, HSet(makeCorsHeaders(r), "content-type", "text/html; charset=utf-8"),
        TextBody(text))

\* the branch of its handler a request takes
Route(v, r) ==
    LET local == CASE r.method = "POST" /\ r.path = "/login" -> "login"
                   [] r.method = "POST" /\ r.path = "/rs/add" -> "rsadd"
                   [] OTHER -> "other"
    IN  CASE v = "mainProxy" -> IF r.method = "OPTIONS" THEN "preflight" ELSE "proxy"
          [] v = "p0Serve" -> "proxy"
          [] v = "mainJson" ->
               IF r.method = "GET" /\ r.path = "/health" THEN "health"
               ELSE IF r.method = "GET" /\ r.path = "/" THEN "ui"
               ELSE IF r.method = "OPTIONS" THEN "preflight"
               ELSE IF local # "other" THEN local
               ELSE "unknown"
          [] v = "p0NoFallback" ->
               IF r.method = "GET" /\ r.path = "/health" THEN "health"
               ELSE IF r.method = "GET" /\ r.path = "/app" THEN "ui"
               ELSE IF r.method = "OPTIONS" THEN "preflight"
               ELSE IF local # "other" THEN local
               ELSE "proxy"
          [] OTHER ->
               IF r.method = "OPTIONS" THEN "preflight"
               ELSE IF r.method = "GET" /\ r.path = "/health" THEN "health"
               ELSE IF r.method = "GET" /\ r.path = "/app" THEN "ui"
               ELSE IF local # "other" THEN local
               ELSE "proxy"

\* the response of a branch that makes no upstream call
LocalResponse(v, r) ==
    LET rt == Route(v, r)
    IN  CASE rt = "preflight" ->
               (CASE v = "mainProxy" -> makeCorsPreflightResponse(
                                            IF ReqGet(r, "origin") # ""
                                            THEN ReqGet(r, "origin") ELSE "*")
                  [] v = "mainJson" -> corsPreflightResponse_Star(
                                            "GET,POST,OPTIONS", "Content-Type, Source, Cookie")
                  [] v = "p0NoFallback" -> corsPreflightResponse_Star(
                                            "GET,POST,OPTIONS,PUT,DELETE",
                                            "Content-Type, Source, Cookie, Authorization")
                  [] OTHER -> corsPreflightResponse(r))
          [] rt = "health" ->
               IF v = "p0Full" THEN jsonResponse(r, [ok |-> TRUE], 200)
               ELSE jsonResponse_Star([ok |-> TRUE], 200)
          [] rt = "ui" ->
               IF v = "p0Full" THEN textResponse(r, <<"getHTML">>, 200)
               ELSE textResponse_Star(<<"getHTML">>, 200)
          [] OTHER -> jsonResponse_Star([error |-> "unknown path"], 404)

(***************************************************************************)
(* The upstream call.                                                      *)
(***************************************************************************)
\* the URL of the primary call, as fetch parses it
TargetUrl(v, r) ==
    LET base == URLParse(TARGET_HOST(v), TARGET_HOST(v))
        rt == Route(v, r)
    IN  CASE rt = "login" -> [base EXCEPT !.path = "/secure/auth/login"]
          [] rt = "rsadd" -> [base EXCEPT !.path = "/rs/add"]
          [] OTHER -> [base EXCEPT !.path = r.path, !.query = r.query]

\* whether the branch calls tryFetchWithFallback (else timeoutFetch or fetch)
UsesFallback(v, rt) ==
    \/ v = "mainProxy" /\ rt = "proxy"
    \/ v = "p0Full" /\ rt \in {"proxy", "login", "rsadd"}

\* whether the call goes through timeoutFetch (the Deno.serve callback calls fetch)
HasTimeout(v) == v # "p0Serve"

\* URL.toString(), and the text of a URL constant as written
Href(u) ==
    u.scheme \o "://" \o u.host \o (IF u.port = "" THEN "" ELSE ":" \o u.port)
    \o u.path \o u.query \o u.hash

\* URL.origin
OriginOf(u) == u.scheme \o "://" \o u.host \o (IF u.port = "" THEN "" ELSE ":" \o u.port)

\* URL.host: the host name and, where it is no default port, the port
HostOf(u) == u.host \o (IF u.port = "" THEN "" ELSE ":" \o u.port)

\* new URL(TARGET_HOST)
TargetURL(v) == URLParse(TARGET_HOST(v), TARGET_HOST(v))

\* headers of handler (src/main.ts, first program): new Headers(req.headers),
\* then the forced headers; URL.hostname carries no port
headers_mainProxy(r) ==
    LET hostname == TargetURL("mainProxy").host
    IN  [r.headers EXCEPT !["host"] = <<hostname>>,
                          !["origin"] = <<"https://" \o hostname>>,
                          !["referer"] = <<"https://" \o hostname \o r.path>>,
                          !["sec-fetch-site"] = <<"same-site">>,
                          !["sec-fetch-mode"] = <<"cors">>,
                          !["sec-fetch-dest"] = <<"empty">>,
                          !["alt-used"] = <<hostname>>]

\* headers of the Deno.serve callback
headers_serve(r) ==
    LET hostname == TargetURL("p0Serve").host
    IN  [r.headers EXCEPT !["host"] = <<hostname>>,
                          !["origin"] = <<"https://" \o hostname>>,
                          !["referer"] = <<"https://" \o hostname \o r.path>>]

\* forward of the no-fallback proxyToTarget
forward_NoFallback(r) ==
    LET copied == [k \in RequestHeaderNames |->
                      IF k \in {"host", "content-length", "accept-encoding", "connection"}
                      THEN <<>> ELSE r.headers[k]]
    IN  [copied EXCEPT !["referer"] = <<Href(TARGET_HOST("p0NoFallback"))>>,
                       !["origin"] = <<Href(TARGET_HOST("p0NoFallback"))>>]

\* makeBrowserLikeHeaders(originalReq, targetOrigin)
makeBrowserLikeHeaders(r, targetOrigin) ==
    [NoRequestHeaders EXCEPT
        !["user-agent"] = IF r.headers["user-agent"] # <<>> THEN r.headers["user-agent"]
                          ELSE <<"Mozilla/5.0 (Windows NT 10.0; Win64; x64)">>,
        !["accept"] = IF r.headers["accept"] # <<>> THEN r.headers["accept"]
                      ELSE <<"text/html,application/xhtml+xml,application/xml;q=0.9,*/*;q=0.8">>,
        !["accept-language"] = IF r.headers["accept-language"] # <<>>
                               THEN r.headers["accept-language"] ELSE <<"en-US,en;q=0.9">>,
        !["origin"] = <<targetOrigin>>,
        !["referer"] = <<targetOrigin \o "/">>,
        !["sec-fetch-site"] = <<"same-site">>,
        !["sec-fetch-mode"] = <<"navigate">>,
        !["sec-fetch-dest"] = <<"document">>,
        !["sec-fetch-user"] = <<"?1">>,
        !["content-type"] = r.headers["content-type"]]

\* forwardHeaders of the full proxyToTarget, and headers of its /login branch
forwardHeaders_Full(r) ==
    [makeBrowserLikeHeaders(r, OriginOf(TargetURL("p0Full"))) EXCEPT
        !["host"] = <<HostOf(TargetURL("p0Full"))>>]

\* headers of the /rs/add branch of the full proxy
headers_rsAdd_Full(r) ==
    [forwardHeaders_Full(r) EXCEPT
        !["cookie"] = r.headers["cookie"],
        !["sec-fetch-site"] = <<"same-site">>,
        !["sec-fetch-mode"] = <<"cors">>,
        !["sec-fetch-dest"] = <<"empty">>]

\* headers of the /login call of the programs with JSON endpoints
headers_login_Json(v) ==
    [NoRequestHeaders EXCEPT
        !["content-type"] = <<"application/json">>,
        !["source"] = <<"WEB">>,
        !["referrer"] = <<Href(TARGET_HOST(v)) \o "/secure/auth/login">>]

\* headers of the /rs/add call of the programs with JSON endpoints
headers_rsAdd_Json(r) ==
    [NoRequestHeaders EXCEPT
        !["content-type"] = <<"application/json">>,
        !["source"] = <<"WEB">>,
        !["alt-used"] = <<"ecsc-expat.sy:8443">>,
        !["sec-fetch-site"] = <<"same-site">>,
        !["cookie"] = r.headers["cookie"]]

\* init.headers of the upstream call of a request
ForwardHeaders(v, r) ==
    LET rt == Route(v, r)
    IN  CASE v = "mainProxy" -> headers_mainProxy(r)
          [] v = "p0Serve" -> headers_serve(r)
          [] v = "p0Full" /\ rt = "rsadd" -> headers_rsAdd_Full(r)
          [] v = "p0Full" -> forwardHeaders_Full(r)
          [] rt = "login" -> headers_login_Json(v)
          [] rt = "rsadd" -> headers_rsAdd_Json(r)
          [] OTHER -> forward_NoFallback(r)

\* the bytes of the inbound body: only a POST of the model carries one
InboundBody(r) ==
    IF r.method # "POST" THEN <<>> ELSE IF r.json THEN <<"{", "}">> ELSE <<"<FF>">>

\* init.body as fetch is given it: nothing, bytes held in memory, the
\* ReadableStream req.body, or that stream once a fetch has taken it
NoBody == [kind |-> "none"]
Buffered(bytes) == [kind |-> "buffer", bytes |-> bytes]
Stream(bytes) == [kind |-> "stream", bytes |-> bytes]
UsedStream == [kind |-> "usedStream"]

\* init.body of the upstream call of a request
ForwardBody(v, r) ==
    LET rt == Route(v, r)
    IN  CASE rt \in {"login", "rsadd"} -> Buffered(<<"JSON.stringify(payload)">>)
          [] r.method = "GET" -> NoBody
          [] v = "mainProxy" -> Buffered(DecodeUtf8(InboundBody(r)))
          [] v = "p0Serve" -> Buffered(InboundBody(r))
          [] OTHER -> Stream(InboundBody(r))

\* how often the handler takes the inbound body before its first call:
\* req.json(), req.clone().text() or arrayBuffer(), or req.body given to fetch
ReadsBody(v, r) ==
    IF ForwardBody(v, r) = NoBody THEN 0 ELSE 1

\* init.body at the second fetch(url, { ...init, signal }): a stream the
\* first fetch took is locked, the bytes in memory are sent again
SecondUse(body) == IF body.kind = "stream" THEN UsedStream ELSE body

Call(url, headers, body) ==
    [url |-> url, headers |-> headers, body |-> body, state |-> "inflight"]

\* the error a failed attempt rejects with
ErrorKinds == {"AbortError", "TypeError"}

Settle(cs, e) ==
    [cs EXCEPT ![Len(cs)].state =
        CASE e = "AbortError" -> "aborted" [] e = "TypeError" -> "failed" [] OTHER -> "completed"]

\* the message of the /rs/add reply, were the content-length tested before the status
RsAddMessage_LengthFirst(status, len) ==
    IF len = "220" THEN "fully booked"
    ELSE IF len = "165" THEN "not available yet"
    ELSE IF len \in {"225", "189", "186"} THEN "already booked"
    ELSE IF status = 403 THEN "session expired"
    ELSE IF status = 200 THEN "confirmed"
    ELSE "unexpected response"

\* the message of the /rs/add reply
RsAddMessage(status, len) ==
    IF status = 400 /\ len = "220" THEN "fully booked"
    ELSE IF status = 400 /\ len = "165" THEN "not available yet"
    ELSE IF status = 403 THEN "session expired"
    ELSE IF status = 400 /\ len \in {"225", "189", "186"} THEN "already booked"
    ELSE IF status = 200 THEN "confirmed"
    ELSE "unexpected response"

Ok(status) == status >= 200 /\ status <= 299

\* the error a failed fetch rejects with: the DOMException of the abort, or
\* the TypeError of the network
FetchError(e) ==
    [name |-> e,
     message |-> IF e = "AbortError" THEN "The signal has been aborted"
                 ELSE "error sending request",
     cause |-> <<>>]

\* String(err)
ErrorString(f) == f.name \o ": " \o f.message

\* what catch (err2) would throw, were it to rethrow the error it caught
TerminalFailure_LastOnly(es) == FetchError(es[Len(es)])

\* what the upstream caller throws after the failures es: the error of
\* catch (err2) after two failures, the rejection of timeoutFetch after one
TerminalFailure(es) ==
    IF Len(es) = 2
    THEN [name |-> "Error",
          message |-> "Both https and http fetch failed. https error: "
                      \o ErrorString(FetchError(es[1])) \o "; http error: "
                      \o ErrorString(FetchError(es[2])),
          cause |-> <<FetchError(es[1]), FetchError(es[2])>>]
    ELSE FetchError(es[1])

\* the error text of the JSON endpoints' catch of the programs that name AbortError
CatchMessage(f) == IF f.name = "AbortError" THEN "Upstream request timed out" ELSE f.message

\* the response to the client when the upstream call failed for good
FailureResponse(v, r, es) ==
    LET rt == Route(v, r)
        err == TerminalFailure(es)
    IN  CASE v \in {"mainProxy", "p0Serve"} ->
               Response(502, HSet(EmptyHeaders, "content-type", "text/plain;charset=UTF-8"),
                        TextBody(<<"Bad gateway: ", ErrorString(err)>>))
          [] v = "p0Full" /\ rt = "proxy" ->
               textResponse(r, <<"Upstream unreachable", ErrorString(err)>>, 502)
          [] v = "p0Full" ->
               jsonResponse(r, [ok |-> FALSE, error |-> err.message], 500)
          [] rt = "proxy" ->
               jsonResponse_Star([ok |-> FALSE, error |-> err.message], 500)
          [] OTHER ->
               jsonResponse_Star([ok |-> FALSE, error |-> CatchMessage(err)], 500)

\* the response to a /login or /rs/add request whose body is no JSON
BadPayloadResponse(v, r) ==
    IF v = "p0Full" THEN jsonResponse(r, [ok |-> FALSE, error |-> "SyntaxError"], 500)
    ELSE jsonResponse_Star([ok |-> FALSE, error |-> "SyntaxError"], 500)

(***************************************************************************)
(* Responses built from the upstream result.                               *)
(***************************************************************************)
TargetOrigin == URLOrigin(URLParse(TARGET_HOST("p0Full"), TARGET_HOST("p0Full")))

\* the Location rewrite of proxyToTarget: relative when the origin is the target's
\* a rewrite that sends the client to / where the Location does not parse
RewriteLocation_RootOnFailure(loc) ==
    LET locUrl == URLParse(loc, TARGET_HOST("p0Full"))
    IN  IF locUrl.kind = "fail" THEN URLRec("rel", "", "", "", "/", "", "")
        ELSE IF URLOrigin(locUrl) = TargetOrigin THEN RelativeOf(locUrl)
        ELSE loc

RewriteLocation(loc) ==
    LET locUrl == URLParse(loc, TARGET_HOST("p0Full"))
    IN  IF locUrl.kind = "fail" THEN loc
        ELSE IF URLOrigin(locUrl) = TargetOrigin THEN RelativeOf(locUrl)
        ELSE loc

\* the Location rewrite of the /login branch of the full proxy: no origin test
RewriteLocationLogin(loc) ==
    LET locUrl == URLParse(loc, TARGET_HOST("p0Full"))
    IN  IF locUrl.kind = "fail" THEN loc ELSE RelativeOf(locUrl)

\* for (const sc of originalSetCookies) newHeaders.append("Set-Cookie", sanitizeSetCookie(sc))
SanitizeEach(cs) == [i \in 1..Len(cs) |-> sanitizeSetCookie(cs[i])]

\* outHeaders.append("set-cookie", rewriteSetCookieForOurDomain(v)) for each line
RewriteEachCookie(cs) == [i \in 1..Len(cs) |-> rewriteSetCookieForOurDomain(cs[i])]

\* outHeaders.set("location", ...) for the Location header, if any
RewriteEachLocation(ls) == [i \in 1..Len(ls) |-> RewriteLocation(ls[i])]

\* the HTML rewrite of the no-fallback proxyToTarget: re1, re2, re3, then the injection
RewriteHtml_NoFallback(text) ==
    LET rewrite == ReplaceAll(text, TargetHostText, <<>>)
        rewrite2 == ReplaceAll(rewrite, HostOnlyText, <<>>)
        final == ReplaceAll(rewrite2, TargetOriginText, <<>>)
    IN  Inject(final)

\* the HTML rewrite of the full proxyToTarget: re1, re2, then the injection
RewriteHtml(text) ==
    Inject(ReplaceAll(ReplaceAll(text, TargetHostText, <<>>), TargetOriginText, <<>>))

\* new Response(body, {status, headers}) with a body that is not null, inside
\* a handler whose failure is answered with onThrow
NewResponse(status, headers, body, onThrow) ==
    IF NullBodyStatus(status) THEN onThrow ELSE Response(status, headers, body)

\* the answer of Deno.serve to a handler that throws
InternalServerError ==
    Response(500, HSet(EmptyHeaders, "content-type", "text/plain;charset=UTF-8"),
             TextBody(<<"Internal Server Error">>))

\* handler of the first program of src/main.ts, after the upstream result
handler_mainProxy(r, up) ==
    LET originalSetCookies == up.headers["set-cookie"]
        h1 == IF Len(originalSetCookies) > 0 THEN HDelete(up.headers, "set-cookie")
              ELSE up.headers
        h2 == IF r.path = "/secure/auth/login" /\ Len(originalSetCookies) > 0
              THEN [h1 EXCEPT !["set-cookie"] = SanitizeEach(originalSetCookies)]
              ELSE h1
        requestOrigin == ReqGet(r, "origin")
        h3 == IF requestOrigin # ""
              THEN [h2 EXCEPT !["access-control-allow-origin"] = <<requestOrigin>>,
                              !["access-control-allow-credentials"] = <<"true">>,
                              !["vary"] = <<"Origin">>]
              ELSE [h2 EXCEPT !["access-control-allow-origin"] = <<"*">>,
                              !["access-control-allow-credentials"] = <<"true">>]
        newHeaders == [h3 EXCEPT
                         !["access-control-allow-methods"] = <<"GET,POST,PUT,DELETE,OPTIONS">>,
                         !["access-control-allow-headers"] = <<"*">>,
                         !["access-control-expose-headers"] = <<"*">>]
        \* new Response(string, ...) supplies the Content-Type of a string body
        \* where the headers have none
        typed == IF HHas(newHeaders, "content-type") THEN newHeaders
                 ELSE HSet(newHeaders, "content-type", "text/plain;charset=UTF-8")
    IN  NewResponse(up.status, typed, TextBody(DecodeUtf8(up.body)), InternalServerError)

\* the Deno.serve callback, after the upstream result
serve_callback(r, up) ==
    LET newHeaders == [up.headers EXCEPT !["access-control-allow-origin"] = <<"*">>,
                                         !["access-control-allow-credentials"] = <<"true">>]
    IN  NewResponse(up.status, newHeaders, TextBody(up.body),
                    FailureResponse("p0Serve", r, <<"TypeError">>))

\* proxyToTarget of the no-fallback program, after the upstream result
proxyToTarget_NoFallback(r, up) ==
    LET h1 == IF HHas(up.headers, "location")
              THEN HSet(up.headers, "location", RewriteLocation(HGet(up.headers, "location")))
              ELSE up.headers
        h2 == HSet(h1, "access-control-allow-origin", "*")
        html == HHas(up.headers, "content-type") /\ IsHtml(HGet(up.headers, "content-type"))
        outHeaders == IF html THEN HSet(h2, "content-type", "text/html; charset=utf-8") ELSE h2
        body == IF html THEN RewriteHtml_NoFallback(up.body) ELSE up.body
    IN  NewResponse(up.status, outHeaders, TextBody(body),
                    jsonResponse_Star([ok |-> FALSE, error |-> "TypeError"], 500))

\* proxyToTarget of the full proxy, after the upstream result
proxyToTarget(r, up) ==
    LET h1 == HAppendAll(makeCorsHeaders(r),
                  [up.headers EXCEPT !["set-cookie"] = <<>>, !["location"] = <<>>,
                                     !["content-type"] = <<>>])
        h2 == [h1 EXCEPT
                 !["set-cookie"] = RewriteEachCookie(up.headers["set-cookie"]),
                 !["location"] = RewriteEachLocation(up.headers["location"]),
                 !["content-type"] = up.headers["content-type"]]
        html == HHas(up.headers, "content-type") /\ IsHtml(HGet(up.headers, "content-type"))
        outHeaders == IF html THEN HSet(h2, "content-type", "text/html; charset=utf-8") ELSE h2
        body == IF html THEN RewriteHtml(up.body) ELSE up.body
    IN  NewResponse(up.status, outHeaders, TextBody(body),
                    jsonResponse(r, [ok |-> FALSE, error |-> "TypeError"], 500))

\* the /login branch of the full proxy, after the upstream result
login_Full(r, up) ==
    LET resHeaders ==
            [makeCorsHeaders(r) EXCEPT
               !["set-cookie"] = RewriteEachCookie(up.headers["set-cookie"]),
               !["location"] = [i \in 1..Len(up.headers["location"]) |->
                                    RewriteLocationLogin(up.headers["location"][i])],
               !["content-type"] = up.headers["content-type"]]
    IN  Response(200, resHeaders,
            JsonBody([ok |-> Ok(up.status), upstreamStatus |-> up.status, message |-> up.body]))

\* the /rs/add branch, after the upstream result
rsAddReply(up) ==
    [ok |-> Ok(up.status), upstreamStatus |-> up.status,
     message |-> RsAddMessage(up.status,
                     IF HHas(up.headers, "content-length")
                     THEN HGet(up.headers, "content-length") ELSE "0")]

rsAdd_Full(r, up) ==
    Response(200,
        [makeCorsHeaders(r) EXCEPT
           !["set-cookie"] = RewriteEachCookie(up.headers["set-cookie"])],
        JsonBody(rsAddReply(up)))

\* the /login branch of the programs that return the cookies in the JSON reply
login_Json(up) ==
    jsonResponse_Star([ok |-> Ok(up.status), upstreamStatus |-> up.status,
                       cookies |-> up.headers["set-cookie"], message |-> up.body], 200)

\* the response a handler builds from the upstream result
BuildResponse(v, r, up) ==
    LET rt == Route(v, r)
    IN  CASE v = "mainProxy" -> handler_mainProxy(r, up)
          [] v = "p0Serve" -> serve_callback(r, up)
          [] v = "p0Full" /\ rt = "proxy" -> proxyToTarget(r, up)
          [] v = "p0Full" /\ rt = "login" -> login_Full(r, up)
          [] v = "p0Full" /\ rt = "rsadd" -> rsAdd_Full(r, up)
          [] v = "p0NoFallback" /\ rt = "proxy" -> proxyToTarget_NoFallback(r, up)
          [] rt = "login" -> login_Json(up)
          [] OTHER -> jsonResponse_Star(rsAddReply(up), 200)

NoResponse == [status |-> 0]

Init ==
    /\ variant \in Variants
    /\ req \in Requests
    /\ pc = "recv"
    /\ calls = <<>>
    /\ errs = <<>>
    /\ upstream = NoResponse
    /\ resp = NoResponse
    /\ bodyReads = 0
    /\ cancelled = FALSE

(***************************************************************************)
(* The steps of a request.                                                 *)
(***************************************************************************)
\* an OPTIONS request is answered without an upstream call
Preflight ==
    /\ pc = "recv"
    /\ Route(variant, req) = "preflight"
    /\ resp' = LocalResponse(variant, req)
    /\ pc' = "done"
    /\ UNCHANGED <<variant, req, calls, errs, upstream, bodyReads, cancelled>>

\* /health, the UI page and the unknown paths of the JSON program
LocalEndpoint ==
    /\ pc = "recv"
    /\ Route(variant, req) \in {"health", "ui", "unknown"}
    /\ resp' = LocalResponse(variant, req)
    /\ pc' = "done"
    /\ UNCHANGED <<variant, req, calls, errs, upstream, bodyReads, cancelled>>

\* await req.json() throws in /login or /rs/add
BadPayload ==
    /\ pc = "recv"
    /\ Route(variant, req) \in {"login", "rsadd"}
    /\ ~req.json
    /\ resp' = BadPayloadResponse(variant, req)
    /\ bodyReads' = 1
    /\ pc' = "done"
    /\ UNCHANGED <<variant, req, calls, errs, upstream, cancelled>>

\* the primary call is issued
\* a handler that stamps the CORS headers on its response before the call
StartUpstream_StampsFirst ==
    /\ pc = "recv"
    /\ Route(variant, req) \in {"proxy", "login", "rsadd"}
    /\ Route(variant, req) = "proxy" \/ req.json
    /\ calls' = <<Call(TargetUrl(variant, req), ForwardHeaders(variant, req),
                        ForwardBody(variant, req))>>
    /\ bodyReads' = ReadsBody(variant, req)
    /\ resp' = Response(0, makeCorsHeaders(req), NullBody)
    /\ pc' = "primary"
    /\ UNCHANGED <<variant, req, errs, upstream, cancelled>>

StartUpstream ==
    /\ pc = "recv"
    /\ Route(variant, req) \in {"proxy", "login", "rsadd"}
    /\ Route(variant, req) = "proxy" \/ req.json
    /\ calls' = <<Call(TargetUrl(variant, req), ForwardHeaders(variant, req),
                        ForwardBody(variant, req))>>
    /\ bodyReads' = ReadsBody(variant, req)
    /\ pc' = "primary"
    /\ UNCHANGED <<variant, req, errs, upstream, resp, cancelled>>

\* the awaited fetch resolves, were a 5xx status of the primary call taken for
\* a failure of the call: the http call is issued for it
UpstreamResponds_RetryOnServerError(r) ==
    /\ pc \in {"primary", "fallback"}
    /\ calls[Len(calls)].body # UsedStream
    /\ IF pc = "primary" /\ r.status >= 500
          /\ UsesFallback(variant, Route(variant, req)) /\ TRY_HTTP_FALLBACK
       THEN /\ calls' = Append(Settle(calls, "ok"),
                               Call(SetProtocolHttp(calls[1].url), calls[1].headers,
                                    SecondUse(calls[1].body)))
            /\ pc' = "fallback"
            /\ upstream' = upstream
       ELSE /\ upstream' = r
            /\ calls' = Settle(calls, "ok")
            /\ pc' = "upstreamOk"
    /\ UNCHANGED <<variant, req, errs, resp, bodyReads, cancelled>>

\* the awaited fetch resolves with the upstream response (any status)
UpstreamResponds(r) ==
    /\ pc \in {"primary", "fallback"}
    /\ calls[Len(calls)].body # UsedStream
    /\ upstream' = r
    /\ calls' = Settle(calls, "ok")
    /\ pc' = "upstreamOk"
    /\ UNCHANGED <<variant, req, errs, resp, bodyReads, cancelled>>

\* catch (err) of tryFetchWithFallback when the retry is repeated on failure
FallbackFails_Retry(e) ==
    /\ pc = "fallback"
    /\ errs' = errs
    /\ calls' = Append(Settle(calls, e),
                        Call(calls[Len(calls)].url, calls[Len(calls)].headers,
                             calls[Len(calls)].body))
    /\ pc' = "fallback"
    /\ UNCHANGED <<variant, req, upstream, resp, bodyReads, cancelled>>

\* the primary call fails: timeout (abort) or network error; tryFetchWithFallback
\* issues the http call, the other callers report the failure
PrimaryFails(e) ==
    /\ pc = "primary"
    /\ e = "AbortError" => HasTimeout(variant)
    /\ errs' = <<e>>
    /\ IF UsesFallback(variant, Route(variant, req)) /\ TRY_HTTP_FALLBACK
       THEN /\ calls' = Append(Settle(calls, e),
                               Call(SetProtocolHttp(calls[1].url), calls[1].headers,
                                    SecondUse(calls[1].body)))
            /\ pc' = "fallback"
            /\ resp' = resp
       ELSE /\ calls' = Settle(calls, e)
            /\ pc' = "done"
            /\ resp' = FailureResponse(variant, req, <<e>>)
    /\ UNCHANGED <<variant, req, upstream, bodyReads, cancelled>>

\* the fallback call fails too: catch (err2) throws the terminal failure
FallbackFails(e) ==
    /\ pc = "fallback"
    /\ calls[Len(calls)].body = UsedStream => e = "TypeError"
    /\ errs' = Append(errs, e)
    /\ calls' = Settle(calls, e)
    /\ resp' = FailureResponse(variant, req, Append(errs, e))
    /\ pc' = "done"
    /\ UNCHANGED <<variant, req, upstream, bodyReads, cancelled>>

\* the handler builds the client response from the upstream result
Respond ==
    /\ pc = "upstreamOk"
    /\ resp' = BuildResponse(variant, req, upstream)
    /\ pc' = "done"
    /\ UNCHANGED <<variant, req, calls, errs, upstream, bodyReads, cancelled>>

\* the client disconnects while the handler awaits the upstream: req.signal
\* aborts; no handler reads req.signal or passes it on to fetch
ClientDisconnects ==
    /\ pc \in {"primary", "fallback"}
    /\ ~cancelled
    /\ cancelled' = TRUE
    /\ UNCHANGED <<variant, req, pc, calls, errs, upstream, resp, bodyReads>>

Next ==
    \/ Preflight
    \/ LocalEndpoint
    \/ BadPayload
    \/ StartUpstream
    \/ \E r \in UpstreamResponses : UpstreamResponds(r)
    \/ \E e \in ErrorKinds : PrimaryFails(e)
    \/ \E e \in ErrorKinds : FallbackFails(e)
    \/ Respond
    \/ ClientDisconnects

Spec == Init /\ [][Next]_vars

(***************************************************************************)
(* Vocabulary of the properties.                                           *)
(***************************************************************************)
\* the request was proxied: its handler forwards it to the same path upstream
Proxied == Route(variant, req) = "proxy"

\* the handler has answered from an upstream response, and not with the error
\* reply it gives when building the response throws
Delivered == pc = "done" /\ upstream.status # 0 /\ ~NullBodyStatus(upstream.status)

\* the upstream was unreachable: every attempt made has failed
Unreachable == pc = "done" /\ upstream.status = 0 /\ Len(calls) >= 1

\* the origin of the upstream of a program
UpstreamOrigin(v) == URLOrigin(URLParse(TARGET_HOST(v), TARGET_HOST(v)))

InFlight == {i \in 1..Len(calls) : calls[i].state = "inflight"}

FallbackEnabled == UsesFallback(variant, Route(variant, req)) /\ TRY_HTTP_FALLBACK

(***************************************************************************)
(* C1.  A request that reaches the upstream caller makes exactly one       *)
(* primary call, to the target URL, and at most one fallback call, issued  *)
(* only after the primary call has failed; there is never a third call,    *)
(* and never two calls in flight.                                          *)
(***************************************************************************)
C1_OnePrimaryAtMostOneFallback ==
    /\ Len(calls) <= 2
    /\ Cardinality(InFlight) <= 1
    /\ pc \in {"primary", "fallback", "upstreamOk"} => Len(calls) >= 1
    /\ pc = "primary" => Len(calls) = 1
    /\ Len(calls) >= 1 => calls[1].url = TargetUrl(variant, req)
    /\ Len(calls) = 2 => /\ calls[1].state \in {"aborted", "failed"}
                         /\ calls[2].url.scheme = "http"
                         /\ Len(errs) >= 1
    /\ pc = "done" /\ (upstream.status # 0 \/ errs # <<>>) => Len(calls) \in {1, 2}

\* both attempts were made and both failed, the first by timeout
C1_Witness ==
    /\ pc = "done"
    /\ Len(calls) = 2
    /\ calls[1].state = "aborted"
    /\ calls[2].state = "failed"
    /\ resp.status = 502

(***************************************************************************)
(* C2.  When the primary call times out it is aborted and counts as a      *)
(* failure.  With fallback enabled exactly one fallback call follows,      *)
(* whose URL is the primary URL with https replaced by http (host, port,   *)
(* path and query the same), and failure is reported only after that call  *)
(* has failed too; with fallback disabled failure is reported at once,     *)
(* after exactly one attempt.                                              *)
(***************************************************************************)
C2_TimeoutThenOneSchemeFallback ==
    (Len(errs) >= 1 /\ errs[1] = "AbortError") =>
        /\ calls[1].state = "aborted"
        /\ IF FallbackEnabled
           THEN /\ Len(calls) = 2
                /\ calls[1].url.scheme = "https"
                /\ calls[2].url = [calls[1].url EXCEPT !.scheme = "http"]
                /\ upstream.status = 0 /\ pc = "done" =>
                      /\ calls[2].state \in {"aborted", "failed"}
                      /\ Len(errs) = 2
                      /\ resp.status >= 500
           ELSE /\ Len(calls) = 1
                /\ pc = "done"
                /\ upstream.status = 0
                /\ resp.status >= 500

\* a request with a query whose two attempts both timed out
C2_Witness ==
    /\ pc = "done"
    /\ errs = <<"AbortError", "AbortError">>
    /\ req.query = "?q=1"
    /\ calls[2].url.port = "8443"
    /\ resp.status = 502

(***************************************************************************)
(* C3.  When the upstream is unreachable, every proxying handler answers   *)
(* with status 502 and a diagnostic message.                               *)
(***************************************************************************)
C3_Unreachable502 ==
    Unreachable /\ Proxied =>
        /\ resp.status = 502
        /\ resp.body.kind = "text"
        /\ resp.body.text # <<>>

(***************************************************************************)
(* C4.  Where a handler applies a cookie rewriter (sanitizeSetCookie or    *)
(* rewriteSetCookieForOurDomain), every Set-Cookie line delivered for an   *)
(* upstream line that carries a Domain attribute carries no Domain         *)
(* attribute, and carries Path=/ if the upstream line had no Path.         *)
(***************************************************************************)
AppliesCookieRewriter ==
    \/ variant = "mainProxy"
    \/ variant = "p0Full" /\ Route(variant, req) \in {"proxy", "login", "rsadd"}

C4_NoDomainAndPath ==
    Delivered /\ AppliesCookieRewriter =>
        \A i \in 1..Len(resp.headers["set-cookie"]) :
            LET orig == upstream.headers["set-cookie"][i]
                out == resp.headers["set-cookie"][i]
            IN  HasAttr(orig, "domain") =>
                  /\ ~HasAttr(out, "domain")
                  /\ ~HasAttr(orig, "path") =>
                        \E j \in 1..Len(out.attrs) :
                            AttrName(out.attrs[j]) = "path" /\ out.attrs[j].val = "/"

(***************************************************************************)
(* C5.  A proxied response carries exactly one Set-Cookie header per       *)
(* upstream Set-Cookie line, each derived from the line at its position,   *)
(* whatever the request path.                                              *)
(***************************************************************************)
C5_OneSetCookiePerLine ==
    Delivered /\ Proxied =>
        /\ Len(resp.headers["set-cookie"]) = Len(upstream.headers["set-cookie"])
        /\ \A i \in 1..Len(resp.headers["set-cookie"]) :
              resp.headers["set-cookie"][i].nv = upstream.headers["set-cookie"][i].nv

(***************************************************************************)
(* C6.  In every proxying handler, an upstream Location that resolves to   *)
(* the upstream origin reaches the client as path + query + fragment.      *)
(***************************************************************************)
C6_SameOriginLocationRelative ==
    Delivered /\ Proxied /\ HHas(upstream.headers, "location") =>
        LET loc == HGet(upstream.headers, "location")
            locUrl == URLParse(loc, TARGET_HOST(variant))
        IN  locUrl.kind # "fail" /\ URLOrigin(locUrl) = UpstreamOrigin(variant) =>
                resp.headers["location"] = <<RelativeOf(locUrl)>>

(***************************************************************************)
(* C7.  In every handler that rewrites Location (proxyToTarget of both     *)
(* programs and the /login branch of the full proxy), an upstream Location *)
(* of another origin reaches the client unchanged.                         *)
(***************************************************************************)
RewritesLocation ==
    \/ variant = "p0Full" /\ Route(variant, req) \in {"proxy", "login"}
    \/ variant = "p0NoFallback" /\ Route(variant, req) = "proxy"

C7_OtherOriginLocationUnchanged ==
    Delivered /\ RewritesLocation /\ HHas(upstream.headers, "location") =>
        LET loc == HGet(upstream.headers, "location")
            locUrl == URLParse(loc, TARGET_HOST(variant))
        IN  locUrl.kind # "fail" /\ URLOrigin(locUrl) # UpstreamOrigin(variant) =>
                resp.headers["location"] = <<loc>>

(***************************************************************************)
(* C8.  An OPTIONS request to any path is answered with status 204, an     *)
(* empty body and an Access-Control-Allow-Methods header, and no upstream  *)
(* call is made for it.                                                    *)
(***************************************************************************)
C8_OptionsAnsweredLocally ==
    req.method = "OPTIONS" =>
        /\ calls = <<>>
        /\ pc = "done" =>
              /\ resp.status = 204
              /\ resp.body = NullBody
              /\ HHas(resp.headers, "access-control-allow-methods")

(***************************************************************************)
(* C9.  The preflight response echoes the caller's Origin in               *)
(* Access-Control-Allow-Origin, and carries * when the request has no      *)
(* Origin header, whatever its Referer.                                    *)
(***************************************************************************)
C9_PreflightAllowOrigin ==
    pc = "done" /\ Route(variant, req) = "preflight" =>
        resp.headers["access-control-allow-origin"] =
            (IF req.headers.origin # <<>> THEN req.headers.origin ELSE <<"*">>)

(***************************************************************************)
(* C10.  Every response to a proxied request, the 502 and the rewritten    *)
(* HTML responses included, carries Access-Control-Allow-Origin,           *)
(* -Allow-Credentials, -Allow-Methods, -Allow-Headers and -Expose-Headers. *)
(***************************************************************************)
C10_CorsAlwaysPresent ==
    pc = "done" /\ Proxied => \A k \in CorsHeaderSet : HHas(resp.headers, k)

(***************************************************************************)
(* C11.  No response sent to the client carries                            *)
(* Access-Control-Allow-Credentials: true together with                    *)
(* Access-Control-Allow-Origin: *; whenever credentials are allowed,       *)
(* Allow-Origin is the caller's Origin.                                    *)
(***************************************************************************)
C11_NoCredentialsWithStar ==
    pc = "done" /\ resp.headers["access-control-allow-credentials"] = <<"true">> =>
        /\ resp.headers["access-control-allow-origin"] # <<"*">>
        /\ resp.headers["access-control-allow-origin"] = req.headers.origin

(***************************************************************************)
(* C12.  Where proxyToTarget rewrites a text/html upstream body, the body  *)
(* sent to the client contains the literal upstream origin string zero     *)
(* times, however often and wherever the upstream body contained it, and   *)
(* contains exactly one injected guard script.                             *)
(***************************************************************************)
RewritesHtmlBody ==
    /\ variant \in {"p0Full", "p0NoFallback"}
    /\ Proxied
    /\ Delivered
    /\ HHas(upstream.headers, "content-type")
    /\ IsHtml(HGet(upstream.headers, "content-type"))

C12_HtmlOriginRemovedOneGuard ==
    RewritesHtmlBody =>
        /\ ~Includes(resp.body.text, TargetOriginText)
        /\ Cardinality({i \in 1..Len(resp.body.text) : IsAt(resp.body.text, Injection, i)}) = 1

(***************************************************************************)
(* C13.  In every proxying handler, the body of a non-HTML upstream        *)
(* response reaches the client byte for byte, under the Content-Type the   *)
(* upstream gave it.                                                       *)
(***************************************************************************)
NonHtmlUpstream ==
    ~(HHas(upstream.headers, "content-type") /\ IsHtml(HGet(upstream.headers, "content-type")))

C13_NonHtmlBodyUnchanged ==
    Delivered /\ Proxied /\ NonHtmlUpstream =>
        /\ resp.body = TextBody(upstream.body)
        /\ resp.headers["content-type"] = upstream.headers["content-type"]

(***************************************************************************)
(* C14.  In every proxying handler, the header set of an upstream call     *)
(* holds none of the inbound request's Host, Content-Length,               *)
(* Accept-Encoding and Connection headers.                                 *)
(***************************************************************************)
ConnectionScoped == {"host", "content-length", "accept-encoding", "connection"}

C14_ConnectionScopedRemoved ==
    Proxied =>
        \A i \in 1..Len(calls) : \A k \in ConnectionScoped :
            req.headers[k] # <<>> => calls[i].headers[k] # req.headers[k]

(***************************************************************************)
(* C15.  On every upstream call of a proxied request, whatever Origin and  *)
(* Referer the caller sent, Origin is the upstream origin (scheme, host    *)
(* and port), Referer is the upstream origin followed by the request path, *)
(* and Host is the upstream's host.                                        *)
(***************************************************************************)
C15_ForcedOriginRefererHost ==
    Proxied =>
        \A i \in 1..Len(calls) :
            /\ calls[i].headers["origin"] = <<OriginOf(TargetURL(variant))>>
            /\ calls[i].headers["referer"] = <<OriginOf(TargetURL(variant)) \o req.path>>
            /\ calls[i].headers["host"] = <<HostOf(TargetURL(variant))>>

(***************************************************************************)
(* C16.  On every upstream call of a proxied request, each of User-Agent,  *)
(* Accept, Accept-Language, Content-Type and Cookie that the inbound       *)
(* request carries is present with the inbound value.                      *)
(***************************************************************************)
PropagatedHeaders == {"user-agent", "accept", "accept-language", "content-type", "cookie"}

C16_EndToEndHeadersVerbatim ==
    Proxied =>
        \A i \in 1..Len(calls) : \A k \in PropagatedHeaders :
            req.headers[k] # <<>> => calls[i].headers[k] = req.headers[k]

(***************************************************************************)
(* C17.  Once the inbound request is cancelled while an upstream call is   *)
(* in flight, that call is aborted and no further upstream call, the       *)
(* fallback included, is started: no call of a cancelled request is in     *)
(* flight, and the call that was in flight does not run to completion.     *)
(***************************************************************************)
C17_CancellationAbortsUpstream ==
    cancelled =>
        /\ InFlight = {}
        /\ \A i \in 1..Len(calls) : calls[i].state # "completed"

(***************************************************************************)
(* C18.  The inbound request body is read at most once per request, and    *)
(* when the primary call has failed the fallback call is given the body    *)
(* the primary call was given, bytes it can send, without another read of  *)
(* the inbound body.                                                       *)
(***************************************************************************)
C18_BodyReadOnceSameBytes ==
    /\ bodyReads <= 1
    /\ Len(calls) = 2 => calls[2].body = calls[1].body

(***************************************************************************)
(* C19.  The JSON reply to POST /rs/add carries a message that is a fixed  *)
(* function of the upstream status and content-length, the fixed "session  *)
(* expired" text when the upstream status is 403 whatever the              *)
(* content-length, and an upstreamStatus field equal to the upstream       *)
(* status.                                                                 *)
(***************************************************************************)
RsAddAnswered == pc = "done" /\ Route(variant, req) = "rsadd" /\ upstream.status # 0

RsAddMessages ==
    {"fully booked", "not available yet", "session expired", "already booked", "confirmed",
     "unexpected response"}

C19_RsAddMessageFixed ==
    RsAddAnswered =>
        LET reply == resp.body.json
            len == IF HHas(upstream.headers, "content-length")
                   THEN HGet(upstream.headers, "content-length") ELSE "0"
        IN  /\ resp.status = 200
            /\ reply.upstreamStatus = upstream.status
            /\ reply.message \in RsAddMessages
            /\ reply.message = RsAddMessage(upstream.status, len)
            /\ upstream.status = 403 => reply.message = "session expired"
            /\ reply.message = "session expired" => upstream.status = 403

\* the upstream answers 403 with a content-length that names another message for a 400
C19_Witness ==
    /\ RsAddAnswered
    /\ upstream.status = 403
    /\ upstream.headers["content-length"] = <<"220">>
    /\ req.headers["cookie"] = <<"SESSION=abc">>
    /\ resp.body.json.message = "session expired"
    /\ resp.body.json.upstreamStatus = 403

(***************************************************************************)
(* Several requests served concurrently by one program.  Deno.serve calls  *)
(* the handler once per request; the invocations interleave at every       *)
(* await.  All a handler writes are its own locals (the module level holds *)
(* constants only), so in this specification every variable but variant    *)
(* holds one value per invocation.                                         *)
(***************************************************************************)
\* the number of requests in progress at once
MaxConcurrent == 2

Handlers == 1..MaxConcurrent

ConcurrentRequests ==
    {r \in Requests :
        /\ r.headers["origin"] = <<>> /\ r.headers["referer"] = <<>>
        /\ \/ r.method = "GET" /\ r.path = "/x" /\ r.query = "" /\ r.headers["cookie"] = <<>>
           \/ r.method = "POST" /\ r.path = "/rs/add" /\ r.headers["cookie"] # <<>>}

ConcurrentUpstreamResponses ==
    {u \in UpstreamResponses :
        /\ u.headers["set-cookie"] = <<>>
        /\ \/ u.status = 200 /\ u.headers["content-type"] = <<"application/json">>
                             /\ u.headers["content-length"] = <<>>
           \/ u.status = 403 /\ u.headers["content-length"] = <<"220">>}

InitConcurrent ==
    /\ variant \in Variants
    /\ req \in [Handlers -> ConcurrentRequests]
    /\ pc = [i \in Handlers |-> "recv"]
    /\ calls = [i \in Handlers |-> <<>>]
    /\ errs = [i \in Handlers |-> <<>>]
    /\ upstream = [i \in Handlers |-> NoResponse]
    /\ resp = [i \in Handlers |-> NoResponse]
    /\ bodyReads = [i \in Handlers |-> 0]
    /\ cancelled = [i \in Handlers |-> FALSE]

\* invocation i answers without an upstream call
AnswersLocally(i) ==
    /\ pc[i] = "recv"
    /\ Route(variant, req[i]) \in {"preflight", "health", "ui", "unknown"}
    /\ resp' = [resp EXCEPT ![i] = LocalResponse(variant, req[i])]
    /\ pc' = [pc EXCEPT ![i] = "done"]
    /\ UNCHANGED <<variant, req, calls, errs, upstream, bodyReads, cancelled>>

\* await req.json() throws in invocation i
BadPayloadOf(i) ==
    /\ pc[i] = "recv"
    /\ Route(variant, req[i]) \in {"login", "rsadd"}
    /\ ~req[i].json
    /\ resp' = [resp EXCEPT ![i] = BadPayloadResponse(variant, req[i])]
    /\ bodyReads' = [bodyReads EXCEPT ![i] = 1]
    /\ pc' = [pc EXCEPT ![i] = "done"]
    /\ UNCHANGED <<variant, req, calls, errs, upstream, cancelled>>

\* invocation i issues its primary call
StartUpstreamOf(i) ==
    /\ pc[i] = "recv"
    /\ Route(variant, req[i]) \in {"proxy", "login", "rsadd"}
    /\ Route(variant, req[i]) = "proxy" \/ req[i].json
    /\ calls' = [calls EXCEPT ![i] = <<Call(TargetUrl(variant, req[i]),
                                            ForwardHeaders(variant, req[i]),
                                            ForwardBody(variant, req[i]))>>]
    /\ bodyReads' = [bodyReads EXCEPT ![i] = ReadsBody(variant, req[i])]
    /\ pc' = [pc EXCEPT ![i] = "primary"]
    /\ UNCHANGED <<variant, req, errs, upstream, resp, cancelled>>

\* the fetch awaited by invocation i resolves
UpstreamRespondsTo(i, r) ==
    /\ pc[i] \in {"primary", "fallback"}
    /\ calls[i][Len(calls[i])].body # UsedStream
    /\ upstream' = [upstream EXCEPT ![i] = r]
    /\ calls' = [calls EXCEPT ![i] = Settle(@, "ok")]
    /\ pc' = [pc EXCEPT ![i] = "upstreamOk"]
    /\ UNCHANGED <<variant, req, errs, resp, bodyReads, cancelled>>

\* the primary call of invocation i fails, were one AbortController shared by
\* the calls of all invocations: every call in flight is aborted with it
PrimaryFailsOf_SharedController(i, e) ==
    /\ pc[i] = "primary"
    /\ e = "AbortError" => HasTimeout(variant)
    /\ errs' = [j \in Handlers |-> IF pc[j] = "primary" THEN <<e>> ELSE errs[j]]
    /\ calls' = [j \in Handlers |-> IF pc[j] = "primary" THEN Settle(calls[j], e) ELSE calls[j]]
    /\ pc' = [j \in Handlers |-> IF pc[j] = "primary" THEN "done" ELSE pc[j]]
    /\ resp' = [j \in Handlers |->
                   IF pc[j] = "primary" THEN FailureResponse(variant, req[j], <<e>>)
                   ELSE resp[j]]
    /\ UNCHANGED <<variant, req, upstream, bodyReads, cancelled>>

\* the primary call of invocation i fails
PrimaryFailsOf(i, e) ==
    /\ pc[i] = "primary"
    /\ e = "AbortError" => HasTimeout(variant)
    /\ errs' = [errs EXCEPT ![i] = <<e>>]
    /\ IF UsesFallback(variant, Route(variant, req[i])) /\ TRY_HTTP_FALLBACK
       THEN /\ calls' = [calls EXCEPT ![i] =
                            Append(Settle(@, e),
                                   Call(SetProtocolHttp(@[1].url), @[1].headers,
                                        SecondUse(@[1].body)))]
            /\ pc' = [pc EXCEPT ![i] = "fallback"]
            /\ resp' = resp
       ELSE /\ calls' = [calls EXCEPT ![i] = Settle(@, e)]
            /\ pc' = [pc EXCEPT ![i] = "done"]
            /\ resp' = [resp EXCEPT ![i] = FailureResponse(variant, req[i], <<e>>)]
    /\ UNCHANGED <<variant, req, upstream, bodyReads, cancelled>>

\* the fallback call of invocation i fails too
FallbackFailsOf(i, e) ==
    /\ pc[i] = "fallback"
    /\ calls[i][Len(calls[i])].body = UsedStream => e = "TypeError"
    /\ errs' = [errs EXCEPT ![i] = Append(@, e)]
    /\ calls' = [calls EXCEPT ![i] = Settle(@, e)]
    /\ resp' = [resp EXCEPT ![i] = FailureResponse(variant, req[i], Append(errs[i], e))]
    /\ pc' = [pc EXCEPT ![i] = "done"]
    /\ UNCHANGED <<variant, req, upstream, bodyReads, cancelled>>

\* invocation i builds its response from its upstream result
RespondTo(i) ==
    /\ pc[i] = "upstreamOk"
    /\ resp' = [resp EXCEPT ![i] = BuildResponse(variant, req[i], upstream[i])]
    /\ pc' = [pc EXCEPT ![i] = "done"]
    /\ UNCHANGED <<variant, req, calls, errs, upstream, bodyReads, cancelled>>

NextConcurrent ==
    \/ \E i \in Handlers : AnswersLocally(i)
    \/ \E i \in Handlers : BadPayloadOf(i)
    \/ \E i \in Handlers : StartUpstreamOf(i)
    \/ \E i \in Handlers : \E r \in ConcurrentUpstreamResponses : UpstreamRespondsTo(i, r)
    \/ \E i \in Handlers : \E e \in ErrorKinds : PrimaryFailsOf(i, e)
    \/ \E i \in Handlers : \E e \in ErrorKinds : FallbackFailsOf(i, e)
    \/ \E i \in Handlers : RespondTo(i)

SpecConcurrent == InitConcurrent /\ [][NextConcurrent]_vars

(***************************************************************************)
(* C20.  With several requests in progress in any interleaving, the        *)
(* upstream calls made for a request and the response given to it depend   *)
(* on that request and its own upstream results only: a step of one        *)
(* request (its failure or timeout included) changes nothing of any other, *)
(* and the response of each is the one its handler gives to that request   *)
(* alone with the same upstream results.                                   *)
(***************************************************************************)
\* what invocation i holds
StateOf(i) == <<pc[i], calls[i], errs[i], upstream[i], resp[i], bodyReads[i]>>

\* the response to request r alone, given the failures es and the upstream response up
ResponseAlone(v, r, es, up) ==
    CASE up.status # 0 -> BuildResponse(v, r, up)
      [] es # <<>> -> FailureResponse(v, r, es)
      [] Route(v, r) \in {"login", "rsadd"} -> BadPayloadResponse(v, r)
      [] OTHER -> LocalResponse(v, r)

\* the URLs of the first n calls of request r alone
CallUrlsAlone(v, r, n) ==
    IF n = 0 THEN <<>>
    ELSE IF n = 1 THEN <<TargetUrl(v, r)>>
    ELSE <<TargetUrl(v, r), SetProtocolHttp(TargetUrl(v, r))>>

C20_RequestsIndependent ==
    /\ [](\A i \in Handlers :
            /\ [k \in 1..Len(calls[i]) |-> calls[i][k].url]
                  = CallUrlsAlone(variant, req[i], Len(calls[i]))
            /\ \A k \in 1..Len(calls[i]) :
                  calls[i][k].state \in {"aborted", "failed"} =>
                      /\ k <= Len(errs[i])
                      /\ calls[i][k].state =
                            (IF errs[i][k] = "AbortError" THEN "aborted" ELSE "failed")
            /\ pc[i] = "done" =>
                  resp[i] = ResponseAlone(variant, req[i], errs[i], upstream[i]))
    /\ [][\A i, j \in Handlers : i # j /\ StateOf(i)' # StateOf(i) => StateOf(j)' = StateOf(j)]_vars

\* of two equal requests in progress together, one has failed for good and
\* the other was answered from its upstream response
C20_Witness ==
    /\ pc[1] = "done" /\ pc[2] = "done"
    /\ errs[1] # <<>> /\ upstream[1].status = 0 /\ resp[1].status >= 500
    /\ errs[2] = <<>> /\ upstream[2].status = 200 /\ resp[2].status = 200
    /\ req[1] = req[2]

(***************************************************************************)
(* C21.  The fallback call is made if and only if the primary call failed  *)
(* to complete and fallback is enabled: a primary call that completes      *)
(* with any HTTP status, 4xx and 5xx included, yields that response and    *)
(* no fallback call.                                                       *)
(***************************************************************************)
PrimaryFailed == Len(calls) >= 1 /\ calls[1].state \in {"aborted", "failed"}

C21_FallbackIffPrimaryFailed ==
    /\ Len(calls) >= 2 <=> PrimaryFailed /\ FallbackEnabled
    /\ Len(calls) >= 1 /\ calls[1].state = "completed" =>
          /\ Len(calls) = 1
          /\ errs = <<>>
          /\ upstream \in UpstreamResponses
          /\ pc = "done" => resp = BuildResponse(variant, req, upstream)

\* the primary call of tryFetchWithFallback completed with status 500 and was the only call
C21_Witness ==
    /\ pc = "done"
    /\ FallbackEnabled
    /\ Len(calls) = 1
    /\ calls[1].state = "completed"
    /\ upstream.status = 500

(***************************************************************************)
(* C22.  When the primary and the fallback attempt have both failed, the   *)
(* upstream caller raises one terminal failure that carries both causes,   *)
(* the primary error and the fallback error; where no fallback is made the *)
(* terminal failure is the primary error itself.                           *)
(***************************************************************************)
\* the text the handler of a proxied request puts into its 502 for the error it caught
ReportedError == resp.body.text[2]

C22_TerminalFailureCarriesBoth ==
    Unreachable =>
        LET failure == TerminalFailure(errs)
        IN  /\ Len(errs) = Len(calls)
            /\ Len(errs) = 2 =>
                  /\ FallbackEnabled
                  /\ failure.cause = <<FetchError(errs[1]), FetchError(errs[2])>>
                  /\ failure.cause[1].name = (IF calls[1].state = "aborted" THEN "AbortError"
                                              ELSE "TypeError")
                  /\ failure.cause[2].name = (IF calls[2].state = "aborted" THEN "AbortError"
                                              ELSE "TypeError")
                  /\ Proxied => ReportedError =
                        "Error: Both https and http fetch failed. https error: "
                        \o ErrorString(failure.cause[1]) \o "; http error: "
                        \o ErrorString(failure.cause[2])
            /\ Len(errs) = 1 =>
                  /\ ~FallbackEnabled
                  /\ failure = FetchError(errs[1])
                  /\ variant = "p0Serve" => ReportedError = ErrorString(FetchError(errs[1]))

\* the primary call timed out, the fallback call failed to connect, and the
\* 502 names both
C22_Witness ==
    /\ Unreachable
    /\ Proxied
    /\ errs = <<"AbortError", "TypeError">>
    /\ resp.status = 502
    /\ ReportedError = "Error: Both https and http fetch failed. https error: "
                       \o "AbortError: The signal has been aborted; http error: "
                       \o "TypeError: error sending request"

(***************************************************************************)
(* The cookie rewriters as functions of one Set-Cookie line.  SpecCookies  *)
(* draws a line, applies the rewriter of the program to it and applies it  *)
(* once more to the result: req is the line, upstream the line rewritten   *)
(* once, resp the line rewritten twice.                                    *)
(***************************************************************************)
MaxAttrs == 3

\* attribute segments as an upstream writes them
AttrPool ==
    {Attr(" ", "Domain", TRUE, "a.sy"), Attr("", "domain", TRUE, "b.sy"),
     Attr(" ", "Path", TRUE, "/app"),
     Attr(" ", "Expires", TRUE, "Wed, 21 Oct 2026 07:28:00 GMT"),
     Attr(" ", "expires", TRUE, "Thu, 01 Jan 1970 00:00:00 GMT"),
     Attr(" ", "Max-Age", TRUE, "60"),
     Attr(" ", "Secure", FALSE, ""), Attr(" ", "SameSite", TRUE, "Lax"),
     Attr(" ", "HttpOnly", FALSE, "")}

CookieInputs == {CookieLine("sid=1", attrs) : attrs \in SeqsUpTo(AttrPool, MaxAttrs)}

\* the rewriter a program applies to an upstream Set-Cookie line
RewriteCookie(v, sc) ==
    IF v = "mainProxy" THEN sanitizeSetCookie(sc) ELSE rewriteSetCookieForOurDomain(sc)

InitCookies ==
    /\ variant \in {"mainProxy", "p0Full"}
    /\ req \in CookieInputs
    /\ pc = "line"
    /\ calls = <<>>
    /\ errs = <<>>
    /\ upstream = NoResponse
    /\ resp = NoResponse
    /\ bodyReads = 0
    /\ cancelled = FALSE

RewriteLine ==
    /\ pc = "line"
    /\ upstream' = RewriteCookie(variant, req)
    /\ pc' = "once"
    /\ UNCHANGED <<variant, req, calls, errs, resp, bodyReads, cancelled>>

RewriteAgain ==
    /\ pc = "once"
    /\ resp' = RewriteCookie(variant, upstream)
    /\ pc' = "twice"
    /\ UNCHANGED <<variant, req, calls, errs, upstream, bodyReads, cancelled>>

NextCookies ==
    \/ RewriteLine
    \/ RewriteAgain

SpecCookies == InitCookies /\ [][NextCookies]_vars

\* the attributes every sanitized line ends with
FixedAttrs ==
    <<Attr(" ", "Path", TRUE, "/"), Attr(" ", "HttpOnly", FALSE, ""),
      Attr(" ", "SameSite", TRUE, "None"), Attr(" ", "Secure", FALSE, "")>>

\* C23: the line sanitizeSetCookie returns is the name=value pair of the
\* input line, then the Expires and the Max-Age of the input line where it
\* has them, each once, in that order and with a value the input line gave
\* it, then exactly Path=/, HttpOnly, SameSite=None, Secure, whatever
\* Domain, Path, SameSite, Secure or HttpOnly the input line carried.
C23_SanitizedLineShape ==
    (variant = "mainProxy" /\ pc \in {"once", "twice"}) =>
        LET out == upstream.attrs
            n == Len(out)
            kept == SubSeq(out, 1, n - 4)
            At(name) == {i \in 1..Len(kept) : AttrName(kept[i]) = name}
        IN  /\ upstream.nv = req.nv
            /\ n >= 4
            /\ SubSeq(out, n - 3, n) = FixedAttrs
            /\ \A name \in {"expires", "max-age"} :
                   Cardinality(At(name)) = IF HasAttr(req, name) THEN 1 ELSE 0
            /\ \A i \in 1..Len(kept) :
                   /\ AttrName(kept[i]) \in {"expires", "max-age"}
                   /\ kept[i].eq
                   /\ \E j \in 1..Len(req.attrs) :
                          /\ AttrName(req.attrs[j]) = AttrName(kept[i])
                          /\ req.attrs[j].val = kept[i].val
            /\ \A i \in At("expires"), j \in At("max-age") : i < j

C23_Witness ==
    /\ variant = "mainProxy"
    /\ pc = "once"
    /\ HasAttr(req, "path")
    /\ HasAttr(req, "domain")
    /\ HasAttr(req, "max-age")
    /\ Len(upstream.attrs) = 5

(***************************************************************************)
(* C24.  Where proxyToTarget rewrites a text/html upstream body, the body  *)
(* sent to the client holds no occurrence of the upstream origin written   *)
(* without its port (scheme and host only), just as it holds none of the   *)
(* origin written with its port.                                           *)
(***************************************************************************)
PortlessOriginText == <<"https:", "//ecsc-expat.sy">>

C24_PortlessOriginRemoved ==
    RewritesHtmlBody =>
        \A i \in 1..Len(resp.body.text) :
            IsAt(resp.body.text, PortlessOriginText, i) =>
                IsAt(resp.body.text, TargetOriginText, i)

(***************************************************************************)
(* C25.  Where a handler is given an upstream Location that does not parse *)
(* as a URL, the response to the client carries that Location unchanged;  *)
(* the parse error fails nothing, and the response of a proxying handler   *)
(* keeps the upstream status.                                              *)
(***************************************************************************)
UnparseableLocation ==
    /\ HHas(upstream.headers, "location")
    /\ URLParse(HGet(upstream.headers, "location"), TARGET_HOST(variant)).kind = "fail"

C25_UnparseableLocationPassedThrough ==
    Delivered /\ UnparseableLocation =>
        /\ (Proxied \/ RewritesLocation) =>
               resp.headers["location"] = upstream.headers["location"]
        /\ Proxied => resp.status = upstream.status

C25_Witness ==
    /\ pc = "done"
    /\ variant = "p0Full"
    /\ Proxied
    /\ UnparseableLocation
    /\ resp.status = 302
    /\ resp.headers["location"] = <<URLRec("bad", "", "", "", "http://[", "", "")>>

(***************************************************************************)
(* C26.  Within one request nothing of the response exists while the       *)
(* upstream result is outstanding: the response (its Set-Cookie, Location  *)
(* and CORS headers and its body) is written only in a step that leaves no *)
(* call in flight, and a response built from the upstream answer is        *)
(* written only after the call that brought the answer has completed,      *)
(* primary or fallback.                                                    *)
(***************************************************************************)
C26_RewriteAfterUpstreamResult ==
    /\ [](pc \in {"recv", "primary", "fallback", "upstreamOk"} => resp = NoResponse)
    /\ [][resp' # resp /\ calls' # <<>> =>
              /\ InFlight' = {}
              /\ upstream' = upstream
              /\ upstream.status # 0 =>
                    /\ pc = "upstreamOk"
                    /\ calls[Len(calls)].state = "completed"
                    /\ resp' = BuildResponse(variant, req, upstream)
              /\ upstream.status = 0 =>
                    /\ Len(errs') = Len(calls')
                    /\ calls'[Len(calls')].state \in {"aborted", "failed"}]_vars

\* the full proxy answered from the fallback call, with cookie lines it rewrote
C26_Witness ==
    /\ pc = "done"
    /\ variant = "p0Full"
    /\ Proxied
    /\ Len(calls) = 2
    /\ calls[2].state = "completed"
    /\ upstream.headers["set-cookie"] # <<>>
    /\ resp.headers["set-cookie"] # upstream.headers["set-cookie"]
    /\ HHas(resp.headers, "access-control-allow-origin")

(***************************************************************************)
(* Progress.  SpecLive adds the upstream that sends its status and headers *)
(* and then never finishes the body, and the fairness the runtime gives:   *)
(* a handler that can take its next step takes it, and an armed timer of   *)
(* timeoutFetch fires unless the call settles first.  fetch resolves once  *)
(* the headers have arrived, and the finally block of timeoutFetch clears  *)
(* the timer then: a handler that awaits upstream.text() or arrayBuffer()  *)
(* of such an answer is at "readingBody", where no timer is armed.         *)
(***************************************************************************)
\* the handler awaits the whole upstream body before it answers; the /rs/add
\* branches read the status and the content-length header only
AwaitsBody(v, r) == Route(v, r) # "rsadd"

LiveUpstreamResponses ==
    {r \in UpstreamResponses :
        /\ r.status = 200
        /\ r.headers["set-cookie"] = <<>>
        /\ r.headers["content-length"] = <<>>
        /\ r.headers["access-control-allow-origin"] = <<>>
        /\ r.headers["content-type"] \in {<<>>, <<"text/html">>, <<"application/json">>}}

\* the awaited fetch resolves with status and headers; the body never ends
UpstreamStalls(r) ==
    /\ pc \in {"primary", "fallback"}
    /\ calls[Len(calls)].body # UsedStream
    /\ upstream' = r
    /\ calls' = Settle(calls, "ok")
    /\ pc' = IF AwaitsBody(variant, req) THEN "readingBody" ELSE "upstreamOk"
    /\ UNCHANGED <<variant, req, errs, resp, bodyReads, cancelled>>

NextLive ==
    \/ Preflight
    \/ LocalEndpoint
    \/ BadPayload
    \/ StartUpstream
    \/ \E r \in LiveUpstreamResponses : UpstreamResponds(r)
    \/ \E r \in LiveUpstreamResponses : UpstreamStalls(r)
    \/ \E e \in ErrorKinds : PrimaryFails(e)
    \/ \E e \in ErrorKinds : FallbackFails(e)
    \/ Respond
    \/ ClientDisconnects

\* the event loop runs a handler that is ready
HandlerFairness ==
    /\ WF_vars(Preflight)
    /\ WF_vars(LocalEndpoint)
    /\ WF_vars(BadPayload)
    /\ WF_vars(StartUpstream)
    /\ WF_vars(Respond)

\* setTimeout(() => controller.abort(), timeout) of the call in flight; a fetch
\* given a used stream rejects by itself
TimerFairness ==
    /\ WF_vars(PrimaryFails("AbortError"))
    /\ WF_vars(\E e \in ErrorKinds : FallbackFails(e))

SpecLive == Init /\ [][NextLive]_vars /\ HandlerFairness /\ TimerFairness

\* C27: every request to a program whose upstream calls go through
\* timeoutFetch is answered in the end, whatever the upstream does, an
\* upstream that sends its headers and never finishes its body included.
C27_EveryRequestAnswered == HasTimeout(variant) => <>(pc = "done")

(***************************************************************************)
(* C28.  The response to a proxied request carries exactly one             *)
(* Access-Control-Allow-Origin value, the one the proxy gives (the         *)
(* caller's origin or the wildcard), also where the upstream response     *)
(* carries an                                                              *)
(* Access-Control-Allow-Origin of its own.                                 *)
(***************************************************************************)
C28_OneAllowOrigin ==
    Delivered /\ Proxied =>
        /\ Len(resp.headers["access-control-allow-origin"]) = 1
        /\ resp.headers["access-control-allow-origin"][1]
              \in {"*", getRequestOrigin(req)} \cup {req.headers.origin[i] : i \in 1..Len(req.headers.origin)}

(***************************************************************************)
(* C29.  Each cookie rewriter is idempotent: applied to its own result it  *)
(* returns that result, for every Set-Cookie line, lines with more than    *)
(* one Domain attribute included.                                          *)
(***************************************************************************)
C29_RewriterIdempotent == pc = "twice" => resp = upstream

(***************************************************************************)
(* C30.  The response to a proxied request whose upstream call completed   *)
(* carries the status of the upstream response, on the HTML path and on    *)
(* the pass-through path alike.                                            *)
(***************************************************************************)
C30_StatusPreserved ==
    pc = "done" /\ Proxied /\ upstream.status # 0 => resp.status = upstream.status

====
